---- MODULE Spec2Model ----
(***************************************************************************)
(* The agent loop of src/agent.py (class Agent): conversation history,     *)
(* confirmation gate, tool dispatch and the bounded reasoning loop.        *)
(*                                                                         *)
(* The reasoning backend, the decision function and the ToolExecutor are   *)
(* external collaborators: their answers are nondeterministic choices.     *)
(* The variable trace is a spy: it records, for the running                *)
(* process_message call, every call made to a collaborator and every       *)
(* append to the history, in program order.                                *)
(***************************************************************************)
EXTENDS Integers, Sequences, FiniteSets, TLC

VARIABLES
    messages,               \* self.messages
    confirm_callback,       \* self._confirm_callback ("None" or a callback)
    confirm_destructive,    \* self.config.agent.confirm_destructive
    max_context_messages,   \* self.config.agent.max_context_messages
    pc,                     \* "idle" | "loop" | "tools"
    iteration,              \* the for-loop variable of _run_agent_loop
    tool_use_blocks,        \* local of _run_agent_loop
    tool_results,           \* local of _run_agent_loop
    idx,                    \* number of tool_use_blocks already resolved
    ret,                    \* spy: outcome of the last process_message call
    userText,               \* argument of the running / last process_message
    trace,                  \* spy: log of the running / last process_message
    afterReset,             \* reset_conversation ran and no process_message since
    nextId,                 \* backend: next fresh call identifier
    script,                 \* backend: behaviour during this call
    budget,                 \* environment: free rounds left
    calls,                  \* number of process_message calls so far
    response,               \* spy: response.content of the last messages.create
    describe                \* one application of _get_confirmation_description

vars == <<messages, confirm_callback, confirm_destructive, max_context_messages,
          pc, iteration, tool_use_blocks, tool_results, idx, ret, userText,
          trace, afterReset, nextId, script, budget, calls, response,
          describe>>

(***************************************************************************)
(* Bounds of the model.                                                    *)
(***************************************************************************)
MaxCalls == 2       \* process_message calls in one run
MaxFree == 1        \* rounds in which the environment answers freely

\* Retention limits the configuration is drawn from.
ContextLimits == {0, 1, 3, 4}
\* The text of the n-th process_message call: every call brings another text.
UserTexts == <<"list my VMs", "delete VM 100", "stop VM 100", "thanks">>
UserTextOf(n) == UserTexts[((n - 1) % Len(UserTexts)) + 1]
Callbacks == {"ask_user"}

(***************************************************************************)
(* Program constants.                                                      *)
(***************************************************************************)
\* Bug variant: the loop runs one round too many.
MaxIterationsOffByOne == 20 + 1

max_iterations == 20

LIMIT_MESSAGE ==
    "I've reached the maximum number of steps for this request. Please try breaking it into smaller tasks."

CANCELLED == "Operation cancelled by user."

DESTRUCTIVE_TOOLS ==
    {"delete_vm", "delete_container", "stop_vm", "stop_container",
     "restore_backup", "restore_snapshot", "delete_snapshot", "delete_backup",
     "remove_network"}

(***************************************************************************)
(* Values.  A Python dict is a sequence of <<key, value>> pairs in         *)
(* insertion order; a value is tagged with its Python type.                *)
(***************************************************************************)
PyNone == [t |-> "none", i |-> 0, s |-> "", b |-> FALSE]
PyInt(n) == [t |-> "int", i |-> n, s |-> "", b |-> FALSE]
PyStr(x) == [t |-> "str", i |-> 0, s |-> x, b |-> FALSE]
PyBool(x) == [t |-> "bool", i |-> 0, s |-> "", b |-> x]

\* Bug variant: a missing key yields the empty string instead of None.
DictGetEmptyWhenMissing(d, key) ==
    IF \E k \in DOMAIN d : d[k][1] = key
    THEN d[CHOOSE k \in DOMAIN d : d[k][1] = key /\ \A j \in 1..(k - 1) : d[j][1] # key][2]
    ELSE PyStr("")

\* dict.get(key): the value of the first pair with that key, else None.
RECURSIVE DictGet(_, _)
DictGet(d, key) ==
    IF d = <<>> THEN PyNone
    ELSE IF Head(d)[1] = key THEN Head(d)[2]
    ELSE DictGet(Tail(d), key)

\* str(value), as an f-string renders it.
PyFormat(v) ==
    CASE v.t = "none" -> "None"
      [] v.t = "int" -> ToString(v.i)
      [] v.t = "str" -> v.s
      [] v.t = "bool" -> IF v.b THEN "True" ELSE "False"

\* separator.join(strings)
RECURSIVE Join(_, _)
Join(sep, strs) ==
    IF strs = <<>> THEN ""
    ELSE IF Len(strs) = 1 THEN strs[1]
    ELSE strs[1] \o sep \o Join(sep, Tail(strs))

\* The JSON text of one value.
JsonValue(v) ==
    CASE v.t = "none" -> "null"
      [] v.t = "int" -> ToString(v.i)
      [] v.t = "str" -> "\"" \o v.s \o "\""
      [] v.t = "bool" -> IF v.b THEN "true" ELSE "false"

\* json.dumps(dict)
JsonDumps(d) ==
    "{" \o Join(", ", [k \in 1..Len(d) |->
                          "\"" \o d[k][1] \o "\": " \o JsonValue(d[k][2])]) \o "}"

(***************************************************************************)
(* Content blocks and turns.  Every block and every turn has the same      *)
(* fields; a field a block type does not carry holds its default.          *)
(***************************************************************************)
TextBlock(t) ==
    [type |-> "text", text |-> t, id |-> 0, name |-> "", input |-> <<>>, content |-> ""]
ToolUseBlock(i, n, inp) ==
    [type |-> "tool_use", text |-> "", id |-> i, name |-> n, input |-> inp, content |-> ""]
ToolResultBlock(i, c) ==
    [type |-> "tool_result", text |-> "", id |-> i, name |-> "", input |-> <<>>, content |-> c]
\* A block of a type the loop does not know (for example a thinking block).
OtherBlock(t) ==
    [type |-> "thinking", text |-> t, id |-> 0, name |-> "", input |-> <<>>, content |-> ""]

\* {"role": "user", "content": user_message}
UserTurn(t) == [role |-> "user", kind |-> "text", text |-> t, blocks |-> <<>>]
\* {"role": "assistant", "content": assistant_content}
AssistantTurn(bs) == [role |-> "assistant", kind |-> "blocks", text |-> "", blocks |-> bs]
\* Bug variant: the tool results are appended under the assistant role.
ResultTurnAsAssistant(bs) ==
    [role |-> "assistant", kind |-> "blocks", text |-> "", blocks |-> bs]
\* {"role": "user", "content": tool_results}
ResultTurn(bs) == [role |-> "user", kind |-> "blocks", text |-> "", blocks |-> bs]

IsToolUse(b) == b.type = "tool_use"
IsText(b) == b.type = "text"

\* [b for b in response.content if b.type == "tool_use"]
ToolUseBlocksOf(content) == SelectSeq(content, IsToolUse)
\* [b for b in response.content if b.type == "text"]
TextBlocksOf(content) == SelectSeq(content, IsText)

\* Bug variant: the operation requests are collected first, the text after.
AssistantContentToolsFirst(content) ==
    ToolUseBlocksOf(content) \o TextBlocksOf(content)

\* The assistant message content built from response.content.
RECURSIVE AssistantContent(_)
AssistantContent(content) ==
    IF content = <<>> THEN <<>>
    ELSE LET b == Head(content)
             rest == AssistantContent(Tail(content))
         IN  IF b.type = "text" THEN <<TextBlock(b.text)>> \o rest
             ELSE IF b.type = "tool_use"
                  THEN <<ToolUseBlock(b.id, b.name, b.input)>> \o rest
                  ELSE rest

\* Bug variant: the text blocks are joined without the separator.
FinalTextNoSeparator(text_blocks) ==
    Join("", [k \in 1..Len(text_blocks) |-> text_blocks[k].text])

\* " ".join(b.text for b in text_blocks)
FinalText(text_blocks) ==
    Join(" ", [k \in 1..Len(text_blocks) |-> text_blocks[k].text])

(***************************************************************************)
(* Confirmation gate.                                                      *)
(***************************************************************************)
\* Bug variant: the oldest turns are kept instead of the most recent ones.
TruncateKeepsOldest(msgs, max_msgs) ==
    IF Len(msgs) > max_msgs THEN SubSeq(msgs, 1, max_msgs) ELSE msgs

\* Agent._truncate_history: self.messages[-max_msgs:] when too long.  Python
\* reads the slice start -0 as 0, so a limit of 0 keeps the whole list.
Truncate(msgs, max_msgs) ==
    IF Len(msgs) > max_msgs
    THEN LET start == IF max_msgs = 0 THEN 1 ELSE Len(msgs) - max_msgs + 1
         IN  SubSeq(msgs, start, Len(msgs))
    ELSE msgs

\* Bug variant: every operation is taken to need confirmation.
NeedsConfirmationForEveryTool(tool_name) == confirm_destructive

\* Bug variant: the global flag is not consulted.
NeedsConfirmationFlagIgnored(tool_name) == tool_name \in DESTRUCTIVE_TOOLS

\* Agent._needs_confirmation
NeedsConfirmation(tool_name) ==
    IF ~confirm_destructive THEN FALSE
    ELSE tool_name \in DESTRUCTIVE_TOOLS

\* Agent._get_confirmation_description
GetConfirmationDescription(tool_name, tool_input) ==
    LET vmid == PyFormat(DictGet(tool_input, "vmid"))
        snapname == PyFormat(DictGet(tool_input, "snapname"))
        archive == PyFormat(DictGet(tool_input, "archive"))
        iface == PyFormat(DictGet(tool_input, "iface"))
    IN  CASE tool_name = "delete_vm" ->
               "PERMANENTLY DELETE VM " \o vmid \o " and all its data"
          [] tool_name = "delete_container" ->
               "PERMANENTLY DELETE container " \o vmid \o " and all its data"
          [] tool_name = "stop_vm" ->
               "FORCE STOP VM " \o vmid \o " (may cause data loss)"
          [] tool_name = "stop_container" ->
               "FORCE STOP container " \o vmid \o " (may cause data loss)"
          [] tool_name = "restore_backup" ->
               "RESTORE backup to VM " \o vmid \o " (overwrites existing data)"
          [] tool_name = "restore_snapshot" ->
               "ROLLBACK VM " \o vmid \o " to snapshot '" \o snapname
                   \o "' (all changes since snapshot will be lost)"
          [] tool_name = "delete_snapshot" ->
               "DELETE snapshot '" \o snapname \o "' from VM " \o vmid
          [] tool_name = "delete_backup" ->
               "DELETE backup " \o archive
          [] tool_name = "remove_network" ->
               "REMOVE network interface '" \o iface
                   \o "' (VMs using it will lose connectivity)"
          [] OTHER -> "Execute destructive operation: " \o tool_name

\* The result synthesized for a request that was not confirmed.
DeniedResult == <<<<"success", PyBool(FALSE)>>, <<"error", PyStr(CANCELLED)>>>>

\* What tool_executor.execute can return: a payload or a structured error.
ExecuteOk == <<<<"success", PyBool(TRUE)>>, <<"data", PyStr("done")>>>>
ExecuteError == <<<<"success", PyBool(FALSE)>>, <<"error", PyStr("backend error")>>>>
ExecuteResults == {ExecuteOk, ExecuteError}

(***************************************************************************)
(* The spy log.                                                            *)
(***************************************************************************)
Event(e, i, n, d, o) ==
    [ev |-> e, id |-> i, name |-> n, desc |-> d, input |-> <<>>, ok |-> o]
EvCreate == Event("create", 0, "", "", TRUE)            \* messages.create returned
EvCreateFailed == Event("create", 0, "", "", FALSE)     \* messages.create raised
EvAssistant == Event("assistant", 0, "", "", TRUE)      \* assistant turn appended
\* the decision function was called with (n, d, inp) and answered o
EvConfirm(i, n, d, inp, o) == [Event("confirm", i, n, d, o) EXCEPT !.input = inp]
\* execute was called with (n, inp) and returned (o: a success payload)
EvExecute(i, n, inp, o) == [Event("execute", i, n, "", o) EXCEPT !.input = inp]
EvResults == Event("results", 0, "", "", TRUE)          \* result turn appended

(***************************************************************************)
(* The reasoning backend's responses.  Identifiers are fresh: a response   *)
(* built at base uses base + 1, base + 2, ...                              *)
(***************************************************************************)
NoInput == <<>>
Vm100 == <<<<"vmid", PyInt(100)>>>>

DefaultText == <<TextBlock("Here are your VMs")>>
ListRequest(base) == <<ToolUseBlock(base + 1, "list_vms", NoInput)>>
DeleteRequest(base) == <<ToolUseBlock(base + 1, "delete_vm", Vm100)>>

FreeResponses(base) ==
    { <<>>,
      <<TextBlock("Done."), OtherBlock("hmm"), TextBlock("Anything else?")>>,
      ListRequest(base),
      <<TextBlock("Deleting VM 100"), ToolUseBlock(base + 1, "delete_vm", Vm100)>>,
      <<ToolUseBlock(base + 1, "delete_vm", Vm100),
        ToolUseBlock(base + 2, "list_vms", NoInput)>>,
      <<ToolUseBlock(base + 1, "list_vms", NoInput),
        ToolUseBlock(base + 2, "stop_vm", NoInput)>> }

\* What the backend answers in a round of the running call.
Responses(base) ==
    IF script = "loop" THEN {DeleteRequest(base)}
    ELSE {DefaultText} \cup (IF budget > 0 THEN FreeResponses(base) ELSE {})

\* "free": any response while the budget lasts, then the default text;
\* "loop": the same request in every round, every decision a denial and every
\* execution a success.
Scripts == {"free", "loop"}

\* What the decision function may answer, and what execute may return, in a
\* round of the running call.
CallbackAnswers == IF script = "free" THEN BOOLEAN ELSE {FALSE}
ExecuteOutcomes == IF script = "free" THEN ExecuteResults ELSE {ExecuteOk}

(***************************************************************************)
(* The state after Agent.__init__.                                         *)
(***************************************************************************)
NoReturn == [kind |-> "none", text |-> ""]
Answer(t) == [kind |-> "answer", text |-> t]        \* return final_text
LimitReached == [kind |-> "limit", text |-> LIMIT_MESSAGE]
Fault == [kind |-> "fault", text |-> ""]            \* an exception propagated

\* No application of _get_confirmation_description is being looked at.
NotDescribing == [name |-> "", input |-> <<>>, out |-> "", done |-> FALSE]

Init ==
    /\ messages = <<>>
    /\ confirm_callback = "None"
    /\ confirm_destructive \in BOOLEAN
    /\ max_context_messages \in ContextLimits
    /\ pc = "idle"
    /\ iteration = 0
    /\ tool_use_blocks = <<>>
    /\ tool_results = <<>>
    /\ idx = 0
    /\ ret = NoReturn
    /\ userText = ""
    /\ trace = <<>>
    /\ afterReset = FALSE
    /\ nextId = 0
    /\ script = "free"
    /\ budget = MaxFree
    /\ calls = 0
    /\ response = <<>>
    /\ describe = NotDescribing

(***************************************************************************)
(* The public operations.                                                  *)
(***************************************************************************)
\* Agent.set_confirm_callback
SetConfirmCallback ==
    /\ pc = "idle"
    /\ \E cb \in Callbacks : confirm_callback' = cb
    /\ UNCHANGED <<response, describe>>
    /\ UNCHANGED <<messages, confirm_destructive, max_context_messages, pc,
                   iteration, tool_use_blocks, tool_results, idx, ret, userText,
                   trace, afterReset, nextId, script, budget, calls>>

\* Bug variant: clearing the history also forgets the decision function.
ResetConversationDropsCallback ==
    /\ pc = "idle"
    /\ messages' = <<>>
    /\ confirm_callback' = "None"
    /\ afterReset' = TRUE
    /\ ret' = NoReturn
    /\ trace' = <<>>
    /\ UNCHANGED <<response, describe>>
    /\ UNCHANGED <<confirm_destructive, max_context_messages,
                   pc, iteration, tool_use_blocks, tool_results, idx,
                   userText, nextId, script, budget, calls>>

\* Bug variant: the history is not cleared.
ResetConversationKeepsHistory ==
    /\ pc = "idle"
    /\ messages' = messages
    /\ afterReset' = TRUE
    /\ ret' = NoReturn
    /\ trace' = <<>>
    /\ UNCHANGED <<response, describe>>
    /\ UNCHANGED <<confirm_callback, confirm_destructive, max_context_messages,
                   pc, iteration, tool_use_blocks, tool_results, idx,
                   userText, nextId, script, budget, calls>>

\* Agent.reset_conversation.  The observations of the last call (ret, trace)
\* describe turns that are gone, so the spy forgets them too.
ResetConversation ==
    /\ pc = "idle"
    /\ messages' = <<>>
    /\ afterReset' = TRUE
    /\ ret' = NoReturn
    /\ trace' = <<>>
    /\ UNCHANGED <<response, describe>>
    /\ UNCHANGED <<confirm_callback, confirm_destructive, max_context_messages,
                   pc, iteration, tool_use_blocks, tool_results, idx,
                   userText, nextId, script, budget, calls>>

\* Agent.process_message up to the entry of the loop: append the user turn,
\* truncate, enter _run_agent_loop.
ProcessMessage ==
    /\ pc = "idle"
    /\ calls < MaxCalls
    /\ \E user_message \in {UserTextOf(calls + 1)}, s \in Scripts :
          /\ s # "free" => budget > 0
          /\ messages' = Truncate(Append(messages, UserTurn(user_message)),
                                  max_context_messages)
          /\ userText' = user_message
          /\ script' = s
          /\ budget' = IF s = "free" THEN budget ELSE budget - 1
    /\ pc' = "loop"
    /\ iteration' = 0
    /\ tool_use_blocks' = <<>>
    /\ tool_results' = <<>>
    /\ idx' = 0
    /\ ret' = NoReturn
    /\ trace' = <<>>
    /\ calls' = calls + 1
    /\ UNCHANGED <<response, describe>>
    /\ UNCHANGED <<confirm_callback, confirm_destructive, max_context_messages,
                   afterReset, nextId>>

(***************************************************************************)
(* _run_agent_loop.                                                        *)
(***************************************************************************)
\* Bug variant: the failure of messages.create is swallowed and reported
\* to the caller as an ordinary answer.
CreateRaisesSwallowed ==
    /\ pc = "loop"
    /\ iteration < max_iterations
    /\ script = "free"
    /\ iteration = 0 => budget > 0
    /\ budget' = IF iteration = 0 THEN budget - 1 ELSE budget
    /\ trace' = Append(trace, EvCreateFailed)
    /\ ret' = Answer("")
    /\ pc' = "idle"
    /\ afterReset' = FALSE
    /\ UNCHANGED <<response, describe>>
    /\ UNCHANGED <<messages, confirm_callback, confirm_destructive,
                   max_context_messages, iteration, tool_use_blocks,
                   tool_results, idx, userText, nextId, script, calls>>

\* messages.create raises: the exception leaves process_message.
CreateRaises ==
    /\ pc = "loop"
    /\ iteration < max_iterations
    /\ script = "free"
    /\ iteration = 0 => budget > 0
    /\ budget' = IF iteration = 0 THEN budget - 1 ELSE budget
    /\ trace' = Append(trace, EvCreateFailed)
    /\ ret' = Fault
    /\ pc' = "idle"
    /\ afterReset' = FALSE
    /\ UNCHANGED <<response, describe>>
    /\ UNCHANGED <<messages, confirm_callback, confirm_destructive,
                   max_context_messages, iteration, tool_use_blocks,
                   tool_results, idx, userText, nextId, script, calls>>

\* One round up to the tool calls: messages.create returns, the assistant turn
\* is appended, and a response without tool_use ends the call.
Reason ==
    /\ pc = "loop"
    /\ iteration < max_iterations
    /\ \E content \in Responses(nextId) :
          LET tool_use == ToolUseBlocksOf(content)
              text_blocks == TextBlocksOf(content)
          IN  /\ messages' = Append(messages, AssistantTurn(AssistantContent(content)))
              /\ response' = content
              /\ trace' = trace \o <<EvCreate, EvAssistant>>
              /\ nextId' = nextId + Len(tool_use)
              /\ budget' = IF script = "free" /\ content # DefaultText
                           THEN budget - 1 ELSE budget
              /\ IF tool_use = <<>>
                 THEN /\ ret' = Answer(FinalText(text_blocks))
                      /\ pc' = "idle"
                      /\ UNCHANGED <<tool_use_blocks, tool_results, idx>>
                 ELSE /\ pc' = "tools"
                      /\ tool_use_blocks' = tool_use
                      /\ tool_results' = <<>>
                      /\ idx' = 0
                      /\ ret' = ret
    /\ afterReset' = FALSE
    /\ UNCHANGED describe
    /\ UNCHANGED <<confirm_callback, confirm_destructive, max_context_messages,
                   iteration, userText, script, calls>>

\* Bug variant: the decision function's answer is dropped.
ConfirmedAnswerIgnored(answer) == TRUE

\* Bug variant: a missing decision function counts as an approval.
ConfirmedFailOpen(answer) == IF confirm_callback # "None" THEN answer ELSE TRUE

\* if self._confirm_callback: confirmed = callback(...) else: confirmed = False
Confirmed(answer) == IF confirm_callback # "None" THEN answer ELSE FALSE

\* The calls the gate makes for one request: the decision function, if one is
\* registered.
GateEvents(tool_block, answer) ==
    IF confirm_callback # "None"
    THEN <<EvConfirm(tool_block.id, tool_block.name,
                     GetConfirmationDescription(tool_block.name, tool_block.input),
                     tool_block.input, answer)>>
    ELSE <<>>

\* Bug variant: a denied request gets no result block.
DeniedResultsDropped(results, tool_id) == results

\* tool_results.append({... "content": json.dumps({"success": False, ...})})
DeniedResults(results, tool_id) ==
    Append(results, ToolResultBlock(tool_id, JsonDumps(DeniedResult)))

\* Bug variant: an executed request's result is put in front of the others.
ExecutedResultsPrepended(results, tool_id, result) ==
    <<ToolResultBlock(tool_id, JsonDumps(result))>> \o results

\* tool_results.append({... "content": json.dumps(result, default=str)})
ExecutedResults(results, tool_id, result) ==
    Append(results, ToolResultBlock(tool_id, JsonDumps(result)))

\* Bug variant: a denial leaves the for loop ("break" for "continue").
AfterRequestBreaksOnDenial(i, denied) ==
    IF denied THEN Len(tool_use_blocks) ELSE i + 1

\* Where the for loop over tool_use_blocks stands after one request: both the
\* "continue" of a denial and the end of the body move on to the next request.
AfterRequest(i, denied) == i + 1

\* Bug variant: the requests of a round are walked from the last to the first.
ResolveToolCallReversed ==
    /\ pc = "tools"
    /\ idx < Len(tool_use_blocks)
    /\ LET tool_block == tool_use_blocks[Len(tool_use_blocks) - idx]
           tool_name == tool_block.name
           tool_id == tool_block.id
       IN  \E answer \in CallbackAnswers, result \in ExecuteOutcomes :
              IF NeedsConfirmation(tool_name) /\ ~Confirmed(answer)
              THEN /\ trace' = trace \o GateEvents(tool_block, answer)
                   /\ tool_results' = DeniedResults(tool_results, tool_id)
                   /\ idx' = AfterRequest(idx, TRUE)
              ELSE /\ trace' = trace
                        \o (IF NeedsConfirmation(tool_name)
                            THEN GateEvents(tool_block, answer) ELSE <<>>)
                        \o <<EvExecute(tool_id, tool_name, tool_block.input,
                                       result = ExecuteOk)>>
                   /\ tool_results' = ExecutedResults(tool_results, tool_id, result)
                   /\ idx' = AfterRequest(idx, FALSE)
    /\ UNCHANGED <<response, describe>>
    /\ UNCHANGED <<messages, confirm_callback, confirm_destructive,
                   max_context_messages, pc, iteration, tool_use_blocks, ret,
                   userText, afterReset, nextId, script, budget, calls>>

\* The body of "for tool_block in tool_use_blocks" for the next request.
ResolveToolCall ==
    /\ pc = "tools"
    /\ idx < Len(tool_use_blocks)
    /\ LET tool_block == tool_use_blocks[idx + 1]
           tool_name == tool_block.name
           tool_id == tool_block.id
       IN  \E answer \in CallbackAnswers, result \in ExecuteOutcomes :
              IF NeedsConfirmation(tool_name) /\ ~Confirmed(answer)
              THEN /\ trace' = trace \o GateEvents(tool_block, answer)
                   /\ tool_results' = DeniedResults(tool_results, tool_id)
                   /\ idx' = AfterRequest(idx, TRUE)
              ELSE /\ trace' = trace
                        \o (IF NeedsConfirmation(tool_name)
                            THEN GateEvents(tool_block, answer) ELSE <<>>)
                        \o <<EvExecute(tool_id, tool_name, tool_block.input,
                                       result = ExecuteOk)>>
                   /\ tool_results' = ExecutedResults(tool_results, tool_id, result)
                   /\ idx' = AfterRequest(idx, FALSE)
    /\ UNCHANGED <<response, describe>>
    /\ UNCHANGED <<messages, confirm_callback, confirm_destructive,
                   max_context_messages, pc, iteration, tool_use_blocks, ret,
                   userText, afterReset, nextId, script, budget, calls>>

\* self.messages.append({"role": "user", "content": tool_results}); next round.
AppendResults ==
    /\ pc = "tools"
    /\ idx >= Len(tool_use_blocks)
    /\ messages' = Append(messages, ResultTurn(tool_results))
    /\ trace' = Append(trace, EvResults)
    /\ iteration' = iteration + 1
    /\ pc' = "loop"
    /\ UNCHANGED <<response, describe>>
    /\ UNCHANGED <<confirm_callback, confirm_destructive, max_context_messages,
                   tool_use_blocks, tool_results, idx, ret, userText, afterReset,
                   nextId, script, budget, calls>>

\* The for loop is exhausted: return the limit message.
ReturnLimit ==
    /\ pc = "loop"
    /\ iteration = max_iterations
    /\ ret' = LimitReached
    /\ pc' = "idle"
    /\ UNCHANGED <<response, describe>>
    /\ UNCHANGED <<messages, confirm_callback, confirm_destructive,
                   max_context_messages, iteration, tool_use_blocks,
                   tool_results, idx, userText, trace, afterReset, nextId,
                   script, budget, calls>>

Next ==
    \/ SetConfirmCallback
    \/ ResetConversation
    \/ ProcessMessage
    \/ CreateRaises
    \/ Reason
    \/ ResolveToolCall
    \/ AppendResults
    \/ ReturnLimit

Spec == Init /\ [][Next]_vars

(***************************************************************************)
(* _get_confirmation_description on its own: a freshly built Agent applies  *)
(* it once to an operation name and a parameter mapping drawn from the sets *)
(* below.                                                                   *)
(***************************************************************************)
\* The names the function is applied to: the nine it knows and two others.
DescribeNames == DESTRUCTIVE_TOOLS \cup {"list_vms", "reboot_node"}

\* A mapping holding the key with one of the values, or not holding it.
OptionalKey(key, values) == {<<>>} \cup {<<<<key, v>>>> : v \in values}

\* The parameter mappings: each key the warnings read is present or absent.
DescribeInputs ==
    { a \o b \o c \o d :
         a \in OptionalKey("vmid", {PyInt(100), PyStr("101")}),
         b \in OptionalKey("snapname", {PyStr("pre-upgrade")}),
         c \in OptionalKey("archive", {PyStr("vzdump-qemu-100.vma.zst")}),
         d \in OptionalKey("iface", {PyStr("vmbr1")}) }

InitDescribe ==
    /\ messages = <<>>
    /\ confirm_callback = "None"
    /\ confirm_destructive = TRUE
    /\ max_context_messages = 4
    /\ pc = "idle"
    /\ iteration = 0
    /\ tool_use_blocks = <<>>
    /\ tool_results = <<>>
    /\ idx = 0
    /\ ret = NoReturn
    /\ userText = ""
    /\ trace = <<>>
    /\ afterReset = FALSE
    /\ nextId = 0
    /\ script = "free"
    /\ budget = MaxFree
    /\ calls = 0
    /\ response = <<>>
    /\ \E n \in DescribeNames, i \in DescribeInputs :
          describe = [name |-> n, input |-> i, out |-> "", done |-> FALSE]

\* description = self._get_confirmation_description(tool_name, tool_input)
Describe ==
    /\ ~describe.done
    /\ describe' = [describe EXCEPT
                       !.out = GetConfirmationDescription(describe.name, describe.input),
                       !.done = TRUE]
    /\ UNCHANGED <<messages, confirm_callback, confirm_destructive,
                   max_context_messages, pc, iteration, tool_use_blocks,
                   tool_results, idx, ret, userText, trace, afterReset, nextId,
                   script, budget, calls, response>>

NextDescribe == Describe

SpecDescribe == InitDescribe /\ [][NextDescribe]_vars

(***************************************************************************)
(* What the properties read off a state.                                   *)
(***************************************************************************)
Last(s) == s[Len(s)]
IsResultTurn(t) == t.role = "user" /\ t.kind = "blocks"
IsAssistantTurn(t) == t.role = "assistant"
Ids(bs) == [k \in 1..Len(bs) |-> bs[k].id]
EventsOf(kinds) == {k \in DOMAIN trace : trace[k].ev \in kinds}

\* The JSON text of the denial, as json.dumps writes it.
DENIED_JSON == "{\"success\": false, \"error\": \"Operation cancelled by user.\"}"

\* Calls of messages.create in the running (or last) process_message.
BackendCalls == Cardinality(EventsOf({"create"}))

\* The turns the running (or last) process_message appended after the user turn.
CallTurnCount == Cardinality(EventsOf({"assistant", "results"}))
CallTurns ==
    IF CallTurnCount <= Len(messages)
    THEN SubSeq(messages, Len(messages) - CallTurnCount + 1, Len(messages))
    ELSE messages

RECURSIVE RequestsIn(_)
RequestsIn(turns) ==
    IF turns = <<>> THEN <<>>
    ELSE (IF IsAssistantTurn(Head(turns))
          THEN ToolUseBlocksOf(Head(turns).blocks) ELSE <<>>)
         \o RequestsIn(Tail(turns))

RECURSIVE ResultsIn(_)
ResultsIn(turns) ==
    IF turns = <<>> THEN <<>>
    ELSE (IF IsResultTurn(Head(turns)) THEN Head(turns).blocks ELSE <<>>)
         \o ResultsIn(Tail(turns))

\* The operation requests of this call, in order, and those already resolved.
Requested == RequestsIn(CallTurns)
Pending == IF pc = "tools" /\ idx < Len(tool_use_blocks)
           THEN Len(tool_use_blocks) - idx ELSE 0
Resolved == SubSeq(Requested, 1, Len(Requested) - Pending)

\* The result blocks of this call: those in result turns, then those of the
\* round in progress.
ResultBlocks == ResultsIn(CallTurns) \o (IF pc = "tools" THEN tool_results ELSE <<>>)

\* The identifiers the Dispatcher was invoked for, in order.
ExecutedIds ==
    LET ex == SelectSeq(trace, LAMBDA e : e.ev = "execute")
    IN  [k \in 1..Len(ex) |-> ex[k].id]

Denials == {k \in DOMAIN trace : trace[k].ev = "confirm" /\ ~trace[k].ok}
Executions == EventsOf({"execute"})

(***************************************************************************)
(* C1: when the decision function answers false for a destructive request  *)
(* (confirmation enabled), the Dispatcher is never invoked for that call    *)
(* identifier, and the result block bound to the identifier, in the round's *)
(* results and then in the result turn, is exactly the cancellation.        *)
(***************************************************************************)
C1_DeniedNeverDispatched ==
    LET results == ResultBlocks
        executed == {trace[j].id : j \in Executions}
        appended == {j \in DOMAIN trace : trace[j].ev = "results"}
        inTurns == ResultsIn(messages)
    IN  \A k \in Denials :
           LET id == trace[k].id
               bound == {r \in DOMAIN results : results[r].id = id}
           IN  /\ id \notin executed
               /\ Cardinality(bound) = 1
               /\ \A r \in bound : /\ results[r].content = DENIED_JSON
                                   /\ results[r].type = "tool_result"
               /\ (\E j \in appended : j > k)
                     => \E r \in DOMAIN inTurns :
                           /\ inTurns[r].id = id
                           /\ inTurns[r].content = DENIED_JSON

\* A call has returned in which one request was denied by the decision
\* function and another request of the same round was executed.
C1_Witness ==
    /\ pc = "idle"
    /\ confirm_destructive
    /\ \E k \in Denials : trace[k].name = "delete_vm" /\ k + 1 \in Executions
    /\ EventsOf({"results"}) # {}

(***************************************************************************)
(* C2: with confirmation enabled and no decision function ever registered,  *)
(* every request for a destructive operation gets the cancellation as its   *)
(* result and the Dispatcher is not invoked for it (fail-closed).           *)
(***************************************************************************)
C2_FailClosed ==
    (confirm_destructive /\ confirm_callback = "None") =>
       LET results == ResultBlocks
           resolved == Resolved
           executed == {trace[j].id : j \in Executions}
       IN  /\ EventsOf({"confirm"}) = {}
           /\ \A j \in Executions : trace[j].name \notin DESTRUCTIVE_TOOLS
           /\ Len(results) = Len(resolved)
           /\ \A r \in DOMAIN resolved :
                 resolved[r].name \in DESTRUCTIVE_TOOLS =>
                    /\ r \in DOMAIN results
                    /\ results[r].id = resolved[r].id
                    /\ results[r].content = DENIED_JSON
                    /\ resolved[r].id \notin executed

\* Without a decision function a round with a destructive and a harmless
\* request has completed: the first was cancelled, the second executed.
C2_Witness ==
    /\ confirm_destructive
    /\ confirm_callback = "None"
    /\ pc = "loop"
    /\ Len(Resolved) = 2
    /\ Resolved[1].name = "delete_vm"
    /\ ResultBlocks[1].content = DENIED_JSON
    /\ ExecutedIds = <<Resolved[2].id>>

(***************************************************************************)
(* C3: with confirm_destructive false the decision function is never       *)
(* invoked, and every requested operation is passed to the Dispatcher       *)
(* (once each, in request order).                                           *)
(***************************************************************************)
C3_DisabledNeverAsks ==
    ~confirm_destructive =>
       /\ EventsOf({"confirm"}) = {}
       /\ ExecutedIds = Ids(Resolved)

\* Confirmation is off, a decision function is registered, and a destructive
\* request went to the Dispatcher.
C3_Witness ==
    /\ ~confirm_destructive
    /\ confirm_callback # "None"
    /\ \E j \in Executions : trace[j].name \in DESTRUCTIVE_TOOLS

(***************************************************************************)
(* C4: a result turn holds exactly one result block per operation request   *)
(* of the assistant turn right before it, with the same call identifiers in *)
(* the same order, whether the requests were denied or executed; and every  *)
(* round that dispatched tools has appended such a turn.                    *)
(***************************************************************************)
C4_ResultsMatchRequests ==
    /\ \A i \in 2..Len(messages) :
          IsResultTurn(messages[i]) =>
             /\ IsAssistantTurn(messages[i - 1])
             /\ Ids(messages[i].blocks) = Ids(ToolUseBlocksOf(messages[i - 1].blocks))
             /\ \A r \in DOMAIN messages[i].blocks :
                   messages[i].blocks[r].type = "tool_result"
    /\ (trace # <<>> /\ Last(trace).ev = "results") =>
          /\ Len(messages) >= 2
          /\ IsResultTurn(Last(messages))
          /\ Last(messages).blocks # <<>>
    /\ \A i \in 1..(Len(messages) - 1) :
          (IsAssistantTurn(messages[i]) /\ ToolUseBlocksOf(messages[i].blocks) # <<>>)
             => IsResultTurn(messages[i + 1])

\* A result turn answers two requests, the first denied, the second executed.
C4_Witness ==
    /\ Len(messages) >= 2
    /\ IsResultTurn(Last(messages))
    /\ Len(Last(messages).blocks) = 2
    /\ Last(messages).blocks[1].content = DENIED_JSON
    /\ Last(messages).blocks[2].content # DENIED_JSON

(***************************************************************************)
(* C5: a process_message call makes at most 20 calls of the reasoning       *)
(* backend, counted afresh in every call; when every one of 20 rounds       *)
(* requested an operation the call returns the fixed limit message, and it  *)
(* returns it only then.                                                    *)
(***************************************************************************)
C5_BoundedRounds ==
    LET n == BackendCalls
        rounds == Cardinality(EventsOf({"results"}))
    IN  /\ n <= 20
        /\ rounds <= 20
        /\ pc # "idle" => n = rounds + (IF pc = "tools" THEN 1 ELSE 0)
        /\ (pc = "loop" /\ rounds < 20) => ENABLED Reason
        /\ (pc = "loop" /\ rounds = 20) =>
              /\ ENABLED ReturnLimit
              /\ ~ENABLED Reason
              /\ ~ENABLED CreateRaises
        /\ ret.kind = "limit" =>
              /\ pc = "idle"
              /\ n = 20
              /\ rounds = 20
              /\ ret.text = "I've reached the maximum number of steps for this request. Please try breaking it into smaller tasks."
        /\ (pc = "idle" /\ rounds = 20) => ret.kind = "limit"

\* The second call of a run has returned the limit message after 20 rounds.
C5_Witness ==
    /\ pc = "idle"
    /\ calls = 2
    /\ ret.kind = "limit"
    /\ BackendCalls = 20
    /\ Len(messages) >= 41

(***************************************************************************)
(* C6: the history never holds a tool-result turn without its requesting    *)
(* assistant turn: every result block references a call identifier of an    *)
(* operation request in the assistant turn right before it.                 *)
(***************************************************************************)
C6_NoStrandedResult ==
    \A i \in DOMAIN messages :
       IsResultTurn(messages[i]) =>
          /\ i > 1
          /\ IsAssistantTurn(messages[i - 1])
          /\ LET prev == messages[i - 1].blocks
                 requested == {prev[r].id : r \in {q \in DOMAIN prev : IsToolUse(prev[q])}}
             IN  \A r \in DOMAIN messages[i].blocks :
                    messages[i].blocks[r].id \in requested

(***************************************************************************)
(* C7: the trim at the start of process_message leaves exactly the most     *)
(* recent min(length, max_context_messages) turns, in order, so at most     *)
(* max_context_messages turns, for every limit including 0 and 1.           *)
(***************************************************************************)
MostRecent(turns, n) ==
    LET keep == IF Len(turns) < n THEN Len(turns) ELSE n
    IN  SubSeq(turns, Len(turns) - keep + 1, Len(turns))

C7_TrimKeepsMostRecent ==
    [][(pc = "idle" /\ pc' = "loop") =>
          /\ messages' = MostRecent(Append(messages, UserTurn(userText')),
                                    max_context_messages)
          /\ Len(messages') <= max_context_messages]_vars

(***************************************************************************)
(* C8: after reset_conversation the next process_message(text) presents to  *)
(* the first call of the reasoning backend a history of exactly one turn,   *)
(* a user turn containing text.                                             *)
(***************************************************************************)
C8_ResetThenOneUserTurn ==
    (afterReset /\ pc = "loop") =>
       /\ iteration = 0
       /\ trace = <<>>
       /\ Len(messages) = 1
       /\ messages[1].role = "user"
       /\ messages[1].kind = "text"
       /\ messages[1].text = userText

\* The second call, made after a reset, is about to call the backend.
C8_Witness ==
    /\ afterReset
    /\ pc = "loop"
    /\ calls = 2
    /\ nextId > 0

(***************************************************************************)
(* C9: a round whose response has no operation request ends the call:       *)
(* process_message returns that response's text blocks joined by one space  *)
(* in response order, the round makes no decision-function or Dispatcher    *)
(* call, and no further backend call; a text-only first response means      *)
(* exactly one backend call.                                                *)
(***************************************************************************)
SpaceJoinedText(blocks) ==
    LET txt == SelectSeq(blocks, IsText)
        acc[k \in 0..Len(txt)] ==
            IF k = 0 THEN ""
            ELSE IF k = 1 THEN txt[1].text
            ELSE acc[k - 1] \o " " \o txt[k].text
    IN  acc[Len(txt)]

C9_TextOnlyEndsCall ==
    /\ (/\ trace # <<>>
        /\ Last(trace).ev = "assistant"
        /\ messages # <<>>
        /\ IsAssistantTurn(Last(messages))
        /\ ToolUseBlocksOf(Last(messages).blocks) = <<>>)
          => /\ pc = "idle"
             /\ ret.kind = "answer"
             /\ ret.text = SpaceJoinedText(Last(messages).blocks)
    /\ ret.kind = "answer" =>
          /\ pc = "idle"
          /\ Len(trace) >= 2
          /\ Last(trace) = EvAssistant
          /\ trace[Len(trace) - 1] = EvCreate
          /\ messages # <<>>
          /\ IsAssistantTurn(Last(messages))
          /\ ToolUseBlocksOf(Last(messages).blocks) = <<>>
          /\ ret.text = SpaceJoinedText(Last(messages).blocks)
          /\ BackendCalls = iteration + 1
          /\ iteration = 0 => trace = <<EvCreate, EvAssistant>>

\* A first response with two text blocks was returned as one text.
C9_Witness ==
    /\ pc = "idle"
    /\ ret.kind = "answer"
    /\ ret.text = "Done. Anything else?"
    /\ BackendCalls = 1

(***************************************************************************)
(* C10: a denied request or an error result of the Dispatcher aborts        *)
(* neither the round nor the loop: the remaining requests of the round are  *)
(* resolved, a result turn with one result per request is appended, and     *)
(* the backend is called again if the budget allows.                        *)
(***************************************************************************)
C10_FailureNeverAborts ==
    /\ pc = "tools" =>
          /\ idx <= Len(tool_use_blocks)
          /\ Len(tool_results) = idx
          /\ Ids(tool_results) = Ids(SubSeq(tool_use_blocks, 1, idx))
          /\ IF idx < Len(tool_use_blocks)
             THEN ENABLED ResolveToolCall
             ELSE ENABLED AppendResults
    /\ (pc = "idle" /\ trace # <<>>) =>
          /\ Last(trace).ev \in {"assistant", "results", "create"}
          /\ Last(trace).ev = "results" => ret.kind = "limit"
          /\ ret.kind = "fault" <=> Last(trace) = EvCreateFailed
    /\ (pc = "loop" /\ iteration > 0) =>
          /\ Last(trace).ev = "results"
          /\ messages # <<>>
          /\ IsResultTurn(Last(messages))
          /\ Len(Last(messages).blocks) = Len(tool_use_blocks)
          /\ iteration < 20 => ENABLED Reason

\* A denial was followed by an execution that returned an error, the result
\* turn was appended and the backend was called again.
C10_Witness ==
    \E k \in Denials :
       /\ Len(trace) >= k + 3
       /\ trace[k + 1].ev = "execute" /\ ~trace[k + 1].ok
       /\ trace[k + 2].ev = "results"
       /\ trace[k + 3] = EvCreate

(***************************************************************************)
(* C11: when messages.create fails in some round, process_message ends in   *)
(* a fault: the failure is the last thing the call did (no decision-        *)
(* function or Dispatcher call follows it), no assistant turn was appended  *)
(* for that round, and neither an answer nor the limit message is returned. *)
(***************************************************************************)
C11_BackendFailurePropagates ==
    LET failed == {k \in DOMAIN trace : trace[k].ev = "create" /\ ~trace[k].ok}
    IN  /\ \A k \in failed :
              /\ k = Len(trace)
              /\ pc = "idle"
              /\ ret.kind = "fault"
              /\ Cardinality(EventsOf({"assistant"})) = BackendCalls - 1
              /\ messages # <<>>
              /\ ~IsAssistantTurn(Last(messages))
        /\ ret.kind = "fault" => failed # {}

\* messages.create failed in the second round, after an operation of the
\* first round had been executed.
C11_Witness ==
    /\ ret.kind = "fault"
    /\ iteration = 1
    /\ Executions # {}
    /\ IsResultTurn(Last(messages))

(***************************************************************************)
(* C12: in every round the assistant turn is appended before the first      *)
(* decision-function or Dispatcher call of the round and reproduces the     *)
(* text and operation-request blocks of the response, in the response's     *)
(* order and with the same name, identifier and parameters; the result turn *)
(* of the round is appended only after the round's last request has been    *)
(* resolved.                                                                *)
(***************************************************************************)
C12_AssistantTurnBeforeCalls ==
    LET kept == SelectSeq(response, LAMBDA b : b.type \in {"text", "tool_use"})
        reproduced ==
           /\ messages # <<>>
           /\ IsAssistantTurn(Last(messages))
           /\ LET bs == Last(messages).blocks
              IN  /\ Len(bs) = Len(kept)
                  /\ \A r \in DOMAIN kept :
                        /\ bs[r].type = kept[r].type
                        /\ bs[r].text = kept[r].text
                        /\ bs[r].id = kept[r].id
                        /\ bs[r].name = kept[r].name
                        /\ bs[r].input = kept[r].input
    IN  /\ \A k \in DOMAIN trace :
              /\ (trace[k].ev = "create" /\ trace[k].ok)
                    => k < Len(trace) /\ trace[k + 1].ev = "assistant"
              /\ trace[k].ev \in {"confirm", "execute", "results"}
                    => k > 1 /\ trace[k - 1].ev \in {"assistant", "confirm", "execute"}
        /\ (trace # <<>> /\ Last(trace).ev = "assistant") => reproduced
        \* while requests are being resolved the assistant turn is the last
        \* turn: the result turn is not there yet
        /\ pc = "tools" =>
              /\ reproduced
              /\ Last(trace).ev \in {"assistant", "confirm", "execute"}
              /\ Ids(ToolUseBlocksOf(Last(messages).blocks)) = Ids(tool_use_blocks)
        \* once the result turn is appended every request of the round is resolved
        /\ (trace # <<>> /\ Last(trace).ev = "results") =>
              /\ Pending = 0
              /\ Len(messages) >= 2
              /\ IsResultTurn(Last(messages))
              /\ IsAssistantTurn(messages[Len(messages) - 1])
              /\ Len(Last(messages).blocks)
                    = Len(ToolUseBlocksOf(messages[Len(messages) - 1].blocks))

\* A response of a text block followed by an operation request: the assistant
\* turn holds both, and the decision function has just been consulted.
C12_Witness ==
    /\ pc = "tools"
    /\ Len(response) = 2
    /\ response[1].type = "text"
    /\ response[2].type = "tool_use"
    /\ Last(messages).blocks = response
    /\ Last(trace).ev = "execute"
    /\ trace[Len(trace) - 1].ev = "confirm"

(***************************************************************************)
(* C13: within a round the requests are resolved strictly one at a time in  *)
(* the order of the response: every decision-function or Dispatcher call is *)
(* made for a request of the call that is already being resolved, the calls *)
(* for one request come before every call for a later request, and for one  *)
(* request the decision function is consulted before the Dispatcher.        *)
(***************************************************************************)
C13_OneRequestAtATime ==
    LET requested == Requested
        done == Len(requested) - Pending
        g == SelectSeq(trace, LAMBDA e : e.ev \in {"confirm", "execute"})
        Pos(id) == CHOOSE r \in DOMAIN requested : requested[r].id = id
    IN  /\ \A k \in DOMAIN g :
              /\ \E r \in DOMAIN requested : requested[r].id = g[k].id
              /\ Pos(g[k].id) <= done
        /\ \A k \in 1..(Len(g) - 1) :
              \/ Pos(g[k].id) < Pos(g[k + 1].id)
              \/ /\ g[k].id = g[k + 1].id
                 /\ g[k].ev = "confirm"
                 /\ g[k + 1].ev = "execute"

\* A round of two requests: the first was put to the decision function and
\* executed, then the second was executed.
C13_Witness ==
    /\ pc = "tools"
    /\ Len(tool_use_blocks) = 2
    /\ idx = 2
    /\ Len(trace) >= 3
    /\ trace[Len(trace) - 2].ev = "confirm"
    /\ trace[Len(trace) - 1].ev = "execute"
    /\ trace[Len(trace) - 1].id = tool_use_blocks[1].id
    /\ Last(trace).ev = "execute"
    /\ Last(trace).id = tool_use_blocks[2].id

(***************************************************************************)
(* C14: for each resolved request: the decision function is never invoked   *)
(* for a non-destructive operation; when confirmation is required (flag on  *)
(* and destructive name) and a decision function is registered it is        *)
(* invoked exactly once, with the operation name, the warning description   *)
(* and the request's parameters, and its answer decides; the Dispatcher is  *)
(* invoked exactly once if the request is not destructive, or confirmation  *)
(* is disabled, or the answer was approve, and not at all otherwise.        *)
(***************************************************************************)
C14_GateCallCounts ==
    LET resolved == Resolved
        confirms == SelectSeq(trace, LAMBDA e : e.ev = "confirm")
        executes == SelectSeq(trace, LAMBDA e : e.ev = "execute")
    IN  \A r \in DOMAIN resolved :
           LET b == resolved[r]
               asks == {k \in DOMAIN confirms : confirms[k].id = b.id}
               runs == {k \in DOMAIN executes : executes[k].id = b.id}
               destructive == b.name \in DESTRUCTIVE_TOOLS
               required == confirm_destructive /\ destructive
               warning ==
                  CASE b.name = "delete_vm" /\ b.input = Vm100 ->
                         "PERMANENTLY DELETE VM 100 and all its data"
                    [] b.name = "stop_vm" /\ b.input = NoInput ->
                         "FORCE STOP VM None (may cause data loss)"
                    [] OTHER -> ""
           IN  /\ ~destructive => asks = {}
               /\ ~required => asks = {} /\ Cardinality(runs) = 1
               /\ required =>
                     /\ Cardinality(asks) <= 1
                     /\ confirm_callback = "None" => asks = {}
                     \* the registration cannot change while a call runs
                     /\ (pc # "idle" /\ confirm_callback # "None")
                           => Cardinality(asks) = 1
                     /\ asks = {} => runs = {}
                     /\ \A k \in asks :
                           /\ confirms[k].name = b.name
                           /\ confirms[k].input = b.input
                           /\ confirms[k].desc = warning
                           /\ Cardinality(runs) = (IF confirms[k].ok THEN 1 ELSE 0)
               /\ \A k \in runs : /\ executes[k].name = b.name
                                   /\ executes[k].input = b.input

\* One round with a destructive request the decision function refused and a
\* non-destructive request that went to the Dispatcher without a question.
C14_Witness ==
    /\ pc = "tools"
    /\ confirm_destructive
    /\ confirm_callback # "None"
    /\ Len(tool_use_blocks) = 2
    /\ idx = 2
    /\ tool_use_blocks[1].name = "delete_vm"
    /\ tool_use_blocks[2].name = "list_vms"
    /\ Len(trace) >= 2
    /\ trace[Len(trace) - 1].ev = "confirm"
    /\ ~trace[Len(trace) - 1].ok
    /\ trace[Len(trace) - 1].input = Vm100
    /\ Last(trace).ev = "execute"
    /\ Last(trace).name = "list_vms"

(***************************************************************************)
(* C15: the warning description is defined for every operation name and    *)
(* parameter mapping: each of the nine known names yields its own warning,  *)
(* with an absent key rendered as None, and any other name yields           *)
(* "Execute destructive operation: <name>".                                 *)
(***************************************************************************)
C15_DescriptionTotal ==
    describe.done =>
       LET n == describe.name
           i == describe.input
           Has(key) == \E k \in DOMAIN i : i[k][1] = key
           Value(key) == i[CHOOSE k \in DOMAIN i : i[k][1] = key][2]
           Shown(key) ==
              IF ~Has(key) THEN "None"
              ELSE IF Value(key).t = "int" THEN ToString(Value(key).i)
              ELSE Value(key).s
           expected ==
              CASE n = "delete_vm" ->
                     "PERMANENTLY DELETE VM " \o Shown("vmid") \o " and all its data"
                [] n = "delete_container" ->
                     "PERMANENTLY DELETE container " \o Shown("vmid")
                        \o " and all its data"
                [] n = "stop_vm" ->
                     "FORCE STOP VM " \o Shown("vmid") \o " (may cause data loss)"
                [] n = "stop_container" ->
                     "FORCE STOP container " \o Shown("vmid")
                        \o " (may cause data loss)"
                [] n = "restore_backup" ->
                     "RESTORE backup to VM " \o Shown("vmid")
                        \o " (overwrites existing data)"
                [] n = "restore_snapshot" ->
                     "ROLLBACK VM " \o Shown("vmid") \o " to snapshot '"
                        \o Shown("snapname")
                        \o "' (all changes since snapshot will be lost)"
                [] n = "delete_snapshot" ->
                     "DELETE snapshot '" \o Shown("snapname") \o "' from VM "
                        \o Shown("vmid")
                [] n = "delete_backup" -> "DELETE backup " \o Shown("archive")
                [] n = "remove_network" ->
                     "REMOVE network interface '" \o Shown("iface")
                        \o "' (VMs using it will lose connectivity)"
                [] n \in {"list_vms", "reboot_node"} ->
                     "Execute destructive operation: " \o n
       IN  describe.out = expected

\* The warning for restore_snapshot was asked for with a mapping holding
\* neither vmid nor snapname.
C15_Witness ==
    /\ describe.done
    /\ describe.name = "restore_snapshot"
    /\ describe.input = <<>>
    /\ describe.out
          = "ROLLBACK VM None to snapshot 'None' (all changes since snapshot will be lost)"

(***************************************************************************)
(* C16 as stated: in every history passed to messages.create the roles      *)
(* strictly alternate (no two consecutive user-role turns, no two           *)
(* consecutive assistant turns), also after calls that ended at the         *)
(* iteration limit.                                                         *)
(***************************************************************************)
C16_RolesAlternate ==
    (pc = "loop" /\ iteration < max_iterations) =>
       \A i \in 1..(Len(messages) - 1) : messages[i].role # messages[i + 1].role

(***************************************************************************)
(* C16, amended: no two consecutive turns are both assistant turns; where a *)
(* user-role turn directly follows another user-role turn, the later one is *)
(* a user text turn (never a result turn), and process_message appends its  *)
(* user turn behind a user-role turn exactly when the call before it ended  *)
(* at the iteration limit or in a backend fault (behind an assistant turn   *)
(* when it returned a final answer).                                        *)
(***************************************************************************)
C16_AlternateExceptAfterLimitOrFault ==
    [][ /\ \A i \in 1..(Len(messages') - 1) :
             /\ ~(IsAssistantTurn(messages'[i]) /\ IsAssistantTurn(messages'[i + 1]))
             /\ (messages'[i].role = "user" /\ messages'[i + 1].role = "user")
                   => messages'[i + 1].kind = "text"
        /\ (pc = "idle" /\ pc' = "loop" /\ messages # <<>>
               /\ Last(messages).role = "user")
              => ret.kind \in {"limit", "fault"}
        /\ (pc = "idle" /\ pc' = "loop" /\ ret.kind \in {"limit", "fault"})
              => messages # <<>> /\ Last(messages).role = "user"
        /\ (pc = "idle" /\ pc' = "loop" /\ ret.kind = "answer")
              => messages # <<>> /\ IsAssistantTurn(Last(messages)) ]_vars

\* A call that follows one that ended at the iteration limit: the history
\* about to be passed to messages.create ends with a result turn and the new
\* user turn.
C16_Witness ==
    /\ pc = "loop"
    /\ iteration = 0
    /\ Len(messages) >= 2
    /\ IsResultTurn(messages[Len(messages) - 1])
    /\ Last(messages) = UserTurn(userText)

(***************************************************************************)
(* C17: whenever process_message has returned without a fault the history   *)
(* holds no unanswered operation request: after a final answer the last     *)
(* turn is an assistant turn without operation requests; after the limit    *)
(* message the last turn is a result turn answering every request of the    *)
(* assistant turn before it; and every assistant turn with requests is      *)
(* directly followed by the result turn answering them.                     *)
(***************************************************************************)
C17_NoUnansweredRequest ==
    LET Answers(i) ==
           /\ i < Len(messages)
           /\ IsAssistantTurn(messages[i])
           /\ IsResultTurn(messages[i + 1])
           /\ \A r \in DOMAIN messages[i + 1].blocks :
                 messages[i + 1].blocks[r].type = "tool_result"
           /\ Ids(messages[i + 1].blocks) = Ids(ToolUseBlocksOf(messages[i].blocks))
    IN  (pc = "idle" /\ ret.kind \in {"answer", "limit"}) =>
           /\ messages # <<>>
           /\ ret.kind = "answer" =>
                 /\ IsAssistantTurn(Last(messages))
                 /\ ToolUseBlocksOf(Last(messages).blocks) = <<>>
           /\ ret.kind = "limit" =>
                 /\ Len(messages) >= 2
                 /\ ToolUseBlocksOf(messages[Len(messages) - 1].blocks) # <<>>
                 /\ Answers(Len(messages) - 1)
           /\ \A i \in DOMAIN messages :
                 (IsAssistantTurn(messages[i])
                    /\ ToolUseBlocksOf(messages[i].blocks) # <<>>) => Answers(i)

\* A call has returned the limit message; its last round's request was
\* refused and the history ends with the result turn holding the refusal.
C17_Witness ==
    /\ pc = "idle"
    /\ ret.kind = "limit"
    /\ IsResultTurn(Last(messages))
    /\ Last(messages).blocks[1].content = DENIED_JSON

(***************************************************************************)
(* C18: every history passed to messages.create is non-empty and ends with  *)
(* a user-role turn: in round 1 the user turn holding the text just given   *)
(* to process_message (the trim keeps it for every retention limit), in a   *)
(* later round the result turn of the round before; and between the rounds  *)
(* of one call the history is never trimmed, it only grows at its end.      *)
(***************************************************************************)
C18_HistoryEndsWithUserTurn ==
    [][ /\ (pc' = "loop" /\ iteration' < max_iterations) =>
             /\ messages' # <<>>
             /\ Last(messages').role = "user"
             /\ iteration' = 0 =>
                   /\ Last(messages') = UserTurn(userText')
                   /\ userText' = UserTextOf(calls')
             /\ iteration' > 0 =>
                   /\ Len(messages') >= 2
                   /\ IsResultTurn(Last(messages'))
                   /\ IsAssistantTurn(messages'[Len(messages') - 1])
                   /\ Ids(Last(messages').blocks) = Ids(tool_use_blocks')
        /\ pc # "idle" =>
             /\ Len(messages) <= Len(messages')
             /\ SubSeq(messages', 1, Len(messages)) = messages ]_vars

\* Retention limit 1, second call: the trim at the start of the call left only
\* the new user turn, and the history passed in round 2 holds three turns.
C18_Witness ==
    /\ pc = "loop"
    /\ iteration = 1
    /\ calls = 2
    /\ max_context_messages = 1
    /\ Len(messages) = 3
    /\ messages[1] = UserTurn(userText)
    /\ IsResultTurn(Last(messages))

====
